---- MODULE Spec2Model ----
(***************************************************************************)
(* A model of the event-observation registry and of the registration       *)
(* context guards of libmpv-rs (src/src/wrapper/mod.rs).                   *)
(*                                                                         *)
(* One Parent instance is modelled.  observe_events holds the locks of     *)
(* ev_to_observe and ev_to_observe_properties from its first statement to  *)
(* its return, so one call is one atomic step of the model.  The native    *)
(* engine is an external collaborator: the return value of every native    *)
(* call is an input of the step, and the model records which native calls  *)
(* a step issued.                                                          *)
(***************************************************************************)
EXTENDS Integers, Sequences, FiniteSets, TLC

\* ------------------------------------------------------------------ bounds
\* Longest batch handed to observe_events.
MaxBatch == 2
\* Number of EventIters that may be alive at the same time.
MaxIters == 2
\* Number of Parent instances whose registration contexts are modelled.
MaxParents == 2
\* Number of events the engine produces.
MaxEmit == 2
\* Number of Clients of the Parent that may be alive at the same time.
MaxClients == 2

\* ------------------------------------------------------------ event model
\* Event kinds without payload that the model subscribes to.
PlainKinds == {"LogMessage"}
\* Property names used in PropertyChange events.
PropNames == {"volume", "pause"}

\* Event: the plain kinds, and PropertyChange carrying a property name.
Event ==
  {[kind |-> k, name |-> ""] : k \in PlainKinds}
    \cup {[kind |-> "PropertyChange", name |-> p] : p \in PropNames}

\* Placeholder where a result carries no event.
NoEvent == [kind |-> "None", name |-> ""]

\* Event::as_id: the native event id of an event is decided by its variant.
as_id(e) == e.kind

\* Return values of the native engine: 0 is success, negative is an error.
NativeErrors == {-4}

\* ----------------------------------------------------------- result values
Ok == [kind |-> "Ok", ev |-> NoEvent, code |-> 0]
AlreadyObserved(e) == [kind |-> "AlreadyObserved", ev |-> e, code |-> 0]
Native(c) == [kind |-> "Native", ev |-> NoEvent, code |-> c]
EventsDisabled == [kind |-> "EventsDisabled", ev |-> NoEvent, code |-> 0]
ContextExists == [kind |-> "ContextExists", ev |-> NoEvent, code |-> 0]

\* Mutant of mpv_err: every failure is reported as one generic error.
mpv_err_generic(err_val) == IF err_val = 0 THEN Ok ELSE Native(-1)

\* mpv_err: 0 is Ok, every other value is surfaced as the native error.
mpv_err(err_val) == IF err_val = 0 THEN Ok ELSE Native(err_val)

\* ------------------------------------------------------------ native calls
\* One native call as issued by the wrapper, with the value it returned.
RequestEvent(id, enable, ret) ==
  [fn |-> "mpv_request_event", ev |-> id, enable |-> enable, id |-> -1,
   name |-> "", ret |-> ret]
RequestLogMessages(ret) ==
  [fn |-> "mpv_request_log_messages", ev |-> "", enable |-> 0, id |-> -1,
   name |-> "", ret |-> ret]
ObserveProperty(id, name, ret) ==
  [fn |-> "mpv_observe_property", ev |-> "", enable |-> 0, id |-> id,
   name |-> name, ret |-> ret]
\* The value mpv_unobserve_property returns is never read by the wrapper.
UnobserveProperty(id) ==
  [fn |-> "mpv_unobserve_property", ev |-> "", enable |-> 0, id |-> id,
   name |-> "", ret |-> 0]

\* What the engine answers during one call of the wrapper: the at-th native
\* call whose return value is read returns code; at = 0: none fails.
NoFailure == [at |-> 0, code |-> 0]
NativeEnv ==
  {NoFailure} \cup [at : 1 .. 2 * MaxBatch, code : NativeErrors]

\* The value the n-th native call of a step returns.
NativeRet(env, n) == IF env.at = n THEN env.code ELSE 0

VARIABLES
  events,                    \* MpvInstance::events()
  ev_to_observe,             \* ev_to_observe: Vec<Event>
  ev_to_observe_properties,  \* ev_to_observe_properties: name -> id
  iters,                     \* the live EventIters: slot -> local_to_observe
  issued,                    \* observation ids handed out by calls so far
  protocols_guard,           \* per Parent: protocols_guard is locked
  opengl_guard,              \* per Parent: opengl_guard is locked
  protocol_ctxs,             \* per Parent: number of live ProtocolContexts
  opengl_ctxs,               \* per Parent: number of live OpenGlStates
  ctx_last,                  \* the last context operation and its result
  flag,                      \* ev_iter_notification.0: Mutex<bool>
  it_state,                  \* per EventIter slot: where its next() stands
  unseen,                    \* a wakeup was signalled and nothing drained since
  ev_observed,               \* ev_observed: Vec<InnerEvent>
  emitted,                   \* number of events the engine has produced
  got,                       \* per EventIter slot: what next() has yielded
  yielded,                   \* every entry an EventIter has yielded so far
  thread,                    \* per thread: its call of observe_events
  observe_lock,              \* owner of the Mutex of ev_to_observe
  properties_lock,           \* owner of the Mutex of ev_to_observe_properties
  handles,                   \* the Parent, its Clients and their EventIters
  api_last                   \* the last construction or command and its result

registry == <<ev_to_observe, ev_to_observe_properties>>
observation == <<events, ev_to_observe, ev_to_observe_properties, iters, issued>>
contexts ==
  <<protocols_guard, opengl_guard, protocol_ctxs, opengl_ctxs, ctx_last>>
wakeup == <<flag, it_state, unseen>>
delivery == <<ev_observed, emitted, got, yielded>>
threads == <<thread, observe_lock, properties_lock>>
api == <<handles, api_last>>
vars == <<observation, contexts, wakeup, delivery, threads, api>>

\* ---------------------------------------------------------- observe_events
\* Mutant of DuplicateKind: the shared list is not searched.
DuplicateKindNever(observe, elem) == FALSE

\* Lines 566-570: a plain event is a duplicate when an entry of the shared
\* list has the same native event id.
DuplicateKind(observe, elem) ==
  \E j \in 1 .. Len(observe) : as_id(elem) = as_id(observe[j])

\* Lines 557: a property change is a duplicate when its name is a key of
\* the shared map.
DuplicateProperty(properties, elem) == elem.name \in DOMAIN properties

\* The first loop (lines 555-583), from element acc.i on.  acc.n counts the
\* error-reporting native calls issued so far, acc.calls records them,
\* acc.evs and acc.props are the vectors evs and props of the code, and
\* acc.result is Ok until a return statement is reached.
RECURSIVE CheckLoop(_, _, _, _, _)
CheckLoop(observe, properties, batch, env, acc) ==
  IF acc.i > Len(batch) THEN acc
  ELSE
    LET elem == batch[acc.i] IN
    IF elem.kind = "PropertyChange" THEN
      IF DuplicateProperty(properties, elem)
      THEN [acc EXCEPT !.result = AlreadyObserved(elem)]
      ELSE
        LET ret == NativeRet(env, acc.n + 1)
            called ==
              [acc EXCEPT !.n = @ + 1,
                          !.calls = Append(@, RequestEvent(as_id(elem), 1, ret))]
        IN IF ret # 0
           THEN [called EXCEPT !.result = mpv_err(ret)]
           ELSE CheckLoop(observe, properties, batch, env,
                          [called EXCEPT !.i = @ + 1,
                                         !.props = Append(@, elem.name),
                                         !.evs = Append(@, elem)])
    ELSE
      IF DuplicateKind(observe, elem)
      THEN [acc EXCEPT !.result = AlreadyObserved(elem)]
      ELSE
        LET isLog == elem.kind = "LogMessage"
            logRet == NativeRet(env, acc.n + 1)
            logged ==
              IF isLog
              THEN [acc EXCEPT !.n = @ + 1,
                               !.calls = Append(@, RequestLogMessages(logRet))]
              ELSE acc
        IN IF isLog /\ logRet # 0
           THEN [logged EXCEPT !.result = mpv_err(logRet)]
           ELSE
             LET ret == NativeRet(env, logged.n + 1)
                 called ==
                   [logged EXCEPT
                      !.n = @ + 1,
                      !.calls = Append(@, RequestEvent(as_id(elem), 1, ret))]
             IN IF ret # 0
                THEN [called EXCEPT !.result = mpv_err(ret)]
                ELSE CheckLoop(observe, properties, batch, env,
                               [called EXCEPT !.i = @ + 1,
                                              !.evs = Append(@, elem)])

\* Lines 597-600: un-observe every pair of props_ins, in insertion order,
\* ignoring what the engine returns.
RECURSIVE Unwind(_, _)
Unwind(props_ins, j) ==
  IF j > Len(props_ins) THEN <<>>
  ELSE <<UnobserveProperty(props_ins[j].id)>> \o Unwind(props_ins, j + 1)

\* The second loop (lines 585-604), from property acc.i on: observe props[i]
\* under id start_id + i (i counted from 0), and on the first failure
\* un-observe what this loop observed and return the error.
RECURSIVE ObserveLoop(_, _, _, _)
ObserveLoop(start_id, props, env, acc) ==
  IF acc.i > Len(props) THEN acc
  ELSE
    LET id == start_id + (acc.i - 1)
        ret == NativeRet(env, acc.n + 1)
        called ==
          [acc EXCEPT !.n = @ + 1,
                      !.calls = Append(@, ObserveProperty(id, props[acc.i], ret))]
    IN IF ret # 0
       THEN [called EXCEPT !.calls = @ \o Unwind(acc.props_ins, 1),
                           !.result = mpv_err(ret)]
       ELSE ObserveLoop(start_id, props, env,
                        [called EXCEPT
                           !.i = @ + 1,
                           !.props_ins =
                             Append(@, [name |-> props[acc.i], id |-> id])])

\* Line 605: observe.extend(evs.clone()).
ExtendObserve(observe, evs) == observe \o evs

\* Line 606: properties.extend(props_ins): later pairs replace earlier ones.
RECURSIVE ExtendProperties(_, _, _)
ExtendProperties(properties, props_ins, j) ==
  IF j > Len(props_ins) THEN properties
  ELSE
    LET p == props_ins[j]
        next ==
          [n \in DOMAIN properties \cup {p.name} |->
             IF n = p.name THEN p.id ELSE properties[n]]
    IN ExtendProperties(next, props_ins, j + 1)

\* Mutant of events_disabled: the instance's events field is not tested.
events_enabled_assumed(enabled) == FALSE

\* Lines 543-545: the call is refused when the instance was constructed
\* without events.
events_disabled(enabled) == ~enabled

\* observe_events (lines 542-618): the result, the native calls issued, the
\* registry after the call, and on success the local_to_observe of the
\* EventIter returned, the observation ids assigned and the pairs merged
\* into the shared map.
observe_events(enabled, observe, properties, batch, env) ==
  LET first ==
        CheckLoop(observe, properties, batch, env,
                  [i |-> 1, n |-> 0, calls |-> <<>>, evs |-> <<>>,
                   props |-> <<>>, result |-> Ok])
      start_id == Cardinality(DOMAIN properties)
      second ==
        ObserveLoop(start_id, first.props, env,
                    [i |-> 1, n |-> first.n, calls |-> first.calls,
                     props_ins |-> <<>>, result |-> Ok])
      Failed(result, calls) ==
        [result |-> result, calls |-> calls, observe |-> observe,
         properties |-> properties, local_to_observe |-> <<>>, ids |-> {},
         props_ins |-> <<>>]
  IN IF events_disabled(enabled) THEN Failed(EventsDisabled, <<>>)
     ELSE IF first.result # Ok THEN Failed(first.result, first.calls)
     ELSE IF second.result # Ok THEN Failed(second.result, second.calls)
     ELSE [result |-> Ok, calls |-> second.calls,
           observe |-> ExtendObserve(observe, first.evs),
           properties |-> ExtendProperties(properties, second.props_ins, 1),
           local_to_observe |-> first.evs,
           ids |-> {second.props_ins[j].id : j \in 1 .. Len(second.props_ins)},
           props_ins |-> second.props_ins]

\* ------------------------------------------------------- iterator teardown
\* An entry of the shared list belongs to a subscription when the native
\* event ids agree and, for property changes, the property names agree.
Matches(outer_ev, inner_ev) ==
  /\ as_id(outer_ev) = as_id(inner_ev)
  /\ outer_ev.kind = "PropertyChange" => outer_ev.name = inner_ev.name

\* Teardown of an EventIter, from subscription j of local_to_observe on:
\* its entries leave the shared list, its property names leave the shared
\* map, and every removed observation id is un-observed in the engine.
RECURSIVE DropLoop(_, _)
DropLoop(local, acc) ==
  IF acc.i > Len(local) THEN acc
  ELSE
    LET outer_ev == local[acc.i]
        kept == SelectSeq(acc.observe, LAMBDA inner_ev : ~Matches(outer_ev, inner_ev))
        removes ==
          /\ outer_ev.kind = "PropertyChange"
          /\ outer_ev.name \in DOMAIN acc.properties
    IN DropLoop(local,
         [i |-> acc.i + 1,
          observe |-> kept,
          properties |->
            IF removes
            THEN [n \in DOMAIN acc.properties \ {outer_ev.name} |-> acc.properties[n]]
            ELSE acc.properties,
          calls |->
            IF removes
            THEN Append(acc.calls, UnobserveProperty(acc.properties[outer_ev.name]))
            ELSE acc.calls])

drop_event_iter(observe, properties, local) ==
  DropLoop(local, [i |-> 1, observe |-> observe, properties |-> properties,
                   calls |-> <<>>])


\* ------------------------------------------------------------ wakeup bridge
\* Where the next() of an EventIter stands: Closed (no iterator), Fresh
\* (first_iteration, line 610), Draining (between two waits), Blocked (in
\* the wait on the condition variable) and Woken (the wait has returned and
\* the drain is about to run).
IterStates == {"Closed", "Fresh", "Draining", "Blocked", "Woken"}

\* Condvar::notify_all: every blocked waiter returns from its wait.
notify_all(states) ==
  [s \in DOMAIN states |-> IF states[s] = "Blocked" THEN "Woken" ELSE states[s]]

\* Mutant of event_callback: the waiters are notified, the flag is left as
\* it was.
event_callback_notify_only(flag_val, states) ==
  [flag |-> flag_val, it_state |-> notify_all(states)]

\* event_callback, the wakeup callback installed at lines 370-372 and
\* 438-440: it sets the flag and notifies all waiters.
event_callback(flag_val, states) ==
  [flag |-> TRUE, it_state |-> notify_all(states)]

\* The wait of next(): a fresh iterator drains without waiting, any other
\* one blocks unless the flag is set.
wait(flag_val, state) ==
  IF state = "Fresh" THEN "Woken"
  ELSE IF flag_val THEN "Woken"
  ELSE "Blocked"

\* ------------------------------------------------------------ event drain
\* The sentinel an EventIter yields when nothing in the buffer is its own.
NoAssociatedEvent == [kind |-> "NoAssociatedEvent", ev |-> NoEvent, code |-> 0]

\* InnerEvent: an event materialised in ev_observed.  id is the observation
\* id of a property change (-1 otherwise); seq is the position of the event
\* in the engine's emission order and tells two entries apart.
InnerEvent(kind, id, seq) == [kind |-> kind, id |-> id, seq |-> seq]

\* An entry of the buffer belongs to an iterator when one of the
\* iterator's subscriptions has its kind and, for a property change, the
\* subscribed property is observed under the entry's observation id.
Owns(local, properties, entry) ==
  \E j \in 1 .. Len(local) :
    /\ as_id(local[j]) = entry.kind
    /\ local[j].kind = "PropertyChange" =>
         /\ local[j].name \in DOMAIN properties
         /\ properties[local[j].name] = entry.id

\* Mutant of drain: the matched entries are yielded and left in the buffer.
drain_keep(local, properties, observed) ==
  LET mine == SelectSeq(observed, LAMBDA en : Owns(local, properties, en))
  IN [items |-> mine, ev_observed |-> observed,
      result |-> IF mine = <<>> THEN NoAssociatedEvent ELSE Ok,
      state |-> "Draining"]

\* Mutant of drain: an iterator that finds nothing of its own is closed.
drain_exhausts(local, properties, observed) ==
  LET mine == SelectSeq(observed, LAMBDA en : Owns(local, properties, en))
  IN [items |-> mine,
      ev_observed |-> SelectSeq(observed, LAMBDA en : ~Owns(local, properties, en)),
      result |-> IF mine = <<>> THEN NoAssociatedEvent ELSE Ok,
      state |-> IF mine = <<>> THEN "Closed" ELSE "Draining"]

\* The drain of next(): the entries of the buffer that belong to the
\* iterator are removed from it and yielded in buffer order; when there is
\* none the sentinel is yielded.  The iterator stays usable either way.
drain(local, properties, observed) ==
  LET mine == SelectSeq(observed, LAMBDA en : Owns(local, properties, en))
  IN [items |-> mine,
      ev_observed |-> SelectSeq(observed, LAMBDA en : ~Owns(local, properties, en)),
      result |-> IF mine = <<>> THEN NoAssociatedEvent ELSE Ok,
      state |-> "Draining"]

\* ------------------------------------------------- threads in observe_events
\* The threads that call observe_events on the instance at the same time.
Threads == {"t1", "t2"}

\* The owner of a Mutex that no thread has locked.
Free == "free"

\* Mutant of lock: the mutex is entered whether it is free or not.
lock_unchecked(owner) == TRUE

\* Mutex::lock (lines 547 and 548) returns once the mutex is free.
lock(owner) == owner = Free

\* A thread that has not called observe_events yet.  pc is the place the
\* thread has reached; evs and props_ins are the locals of the call, seen
\* is the registry its duplicate checks read.
NotCalled ==
  [pc |-> "start", batch |-> <<>>, result |-> Ok, calls |-> <<>>,
   evs |-> <<>>, props_ins |-> <<>>,
   seen |-> [observe |-> <<>>, properties |-> <<>>]]

\* ------------------------------------------------------------ construction
\* lib.rs, lines 52-54.
MPV_CLIENT_API_MAJOR == 1
MPV_CLIENT_API_MINOR == 21

\* Bitwise or of two naturals.
RECURSIVE BitOr(_, _)
BitOr(a, b) ==
  IF a = 0 THEN b
  ELSE IF b = 0 THEN a
  ELSE (IF a % 2 = 1 \/ b % 2 = 1 THEN 1 ELSE 0) + 2 * BitOr(a \div 2, b \div 2)

\* lib.rs, lines 58-60: major << 16 | minor, in u32: the shift keeps the
\* low 16 bits of major.
mpv_make_version(major, minor) == BitOr((major % 65536) * 65536, minor)

\* lib.rs, lines 56-57.
MPV_CLIENT_API_VERSION ==
  mpv_make_version(MPV_CLIENT_API_MAJOR, MPV_CLIENT_API_MINOR)

\* What mpv_client_api_version() of the loaded library may return: the
\* version compiled against, an older and a newer minor, another major.
LoadedVersions ==
  {mpv_make_version(MPV_CLIENT_API_MAJOR, MPV_CLIENT_API_MINOR),
   mpv_make_version(MPV_CLIENT_API_MAJOR, MPV_CLIENT_API_MINOR - 1),
   mpv_make_version(MPV_CLIENT_API_MAJOR, MPV_CLIENT_API_MINOR + 1),
   mpv_make_version(MPV_CLIENT_API_MAJOR + 1, MPV_CLIENT_API_MINOR)}

VersionMismatch(linked, loaded) ==
  [kind |-> "VersionMismatch", ev |-> NoEvent, code |-> 0,
   linked |-> linked, loaded |-> loaded]
Null == [kind |-> "Null", ev |-> NoEvent, code |-> 0]
Nul == [kind |-> "Nul", ev |-> NoEvent, code |-> 0]
InvalidArgument == [kind |-> "InvalidArgument", ev |-> NoEvent, code |-> 0]
Loadfiles(index, error) ==
  [kind |-> "Loadfiles", ev |-> NoEvent, code |-> 0, index |-> index,
   error |-> error]

\* A text with a zero byte inside, and CString::new, which refuses it.
NulText == "a<NUL>b"
HasNul(text) == text = NulText

\* A native call that takes no argument the model looks at.
NativeCall(fn, ret) ==
  [fn |-> fn, ev |-> "", enable |-> 0, id |-> -1, name |-> "", ret |-> ret]
SetProperty(name, ret) ==
  [fn |-> "mpv_set_property", ev |-> "", enable |-> 0, id |-> -1,
   name |-> name, ret |-> ret]
CommandString(cmd, ret) ==
  [fn |-> "mpv_command_string", ev |-> "", enable |-> 0, id |-> -1,
   name |-> cmd, ret |-> ret]

\* The events an instance without events switches off (lines 381-395 and
\* 449-463), in the order of the calls.
DisabledEvents ==
  <<"LogMessage", "GetPropertyReply", "SetPropertyReply", "CommandReply",
    "StartFile", "EndFile", "FileLoaded", "Idle", "ClientMessage",
    "VideoReconfig", "AudioReconfig", "Seek", "PlaybackRestart",
    "PropertyChange", "QueueOverflow">>

\* Longest list of options handed to with_options.
MaxOpts == 1

\* Names of options and of clients.
Names == {"vo", NulText}

\* What the engine answers during a construction that reads the return
\* value of at most reads native calls: the at-th of them fails.
CtorEnv(reads) == {NoFailure} \cup [at : 1 .. reads, code : NativeErrors]

\* The number of return values with_options and new_client read at most.
CtorReads(events_arg, opts) ==
  (IF events_arg THEN 0 ELSE Len(DisabledEvents)) + Len(opts) + 1

\* Lines 380-396 and 448-464, from event acc.i on: detach_on_err around
\* mpv_request_event(ctx, id, 0).
RECURSIVE DisableEvents(_, _)
DisableEvents(env, acc) ==
  IF acc.i > Len(DisabledEvents) THEN acc
  ELSE
    LET ret == NativeRet(env, acc.n + 1)
        called ==
          [acc EXCEPT
             !.n = @ + 1,
             !.calls = Append(@, RequestEvent(DisabledEvents[acc.i], 0, ret))]
    IN IF ret # 0
       THEN [called EXCEPT
               !.calls = Append(@, NativeCall("mpv_detach_destroy", 0)),
               !.result = mpv_err(ret)]
       ELSE DisableEvents(env, [called EXCEPT !.i = @ + 1])

\* Lines 366-399 and 433-467: install the wakeup callback, or switch the
\* events off.
SetUpEvents(events_arg, env, acc) ==
  IF events_arg
  THEN [acc EXCEPT !.calls = Append(@, NativeCall("mpv_set_wakeup_callback", 0))]
  ELSE DisableEvents(env, [acc EXCEPT !.i = 1])

\* Lines 401-408, from option acc.i on: internal_set_property (lines
\* 1149-1175) for every option; on an error the handle is destroyed.
RECURSIVE SetOptions(_, _, _)
SetOptions(opts, env, acc) ==
  IF acc.i > Len(opts) THEN acc
  ELSE
    IF HasNul(opts[acc.i])
    THEN [acc EXCEPT
            !.calls = Append(@, NativeCall("mpv_terminate_destroy", 0)),
            !.result = Nul]
    ELSE
      LET ret == NativeRet(env, acc.n + 1)
          called ==
            [acc EXCEPT !.n = @ + 1,
                        !.calls = Append(@, SetProperty(opts[acc.i], ret))]
      IN IF ret # 0
         THEN [called EXCEPT
                 !.calls = Append(@, NativeCall("mpv_terminate_destroy", 0)),
                 !.result = mpv_err(ret)]
         ELSE SetOptions(opts, env, [called EXCEPT !.i = @ + 1])

\* Mutant of version_mismatch: only the major versions are compared.
version_major_mismatch(linked, loaded) ==
  linked \div 65536 # loaded \div 65536

\* Line 357: the compiled-against and the loaded version differ.
version_mismatch(linked, loaded) == linked # loaded

\* Parent::with_options (lines 350-422): the result, the native calls
\* issued, and whether a Parent is returned.  once: SET_LC_NUMERIC has run;
\* api_version: what mpv_client_api_version returns; ctx_null: mpv_create
\* returns null.
with_options(once, events_arg, opts, api_version, ctx_null, env) ==
  LET locale == IF once THEN <<>> ELSE <<NativeCall("setlocale", 0)>>
      probed == locale \o <<NativeCall("mpv_client_api_version", api_version)>>
      created == Append(probed, NativeCall("mpv_create", IF ctx_null THEN 0 ELSE 1))
      set_up ==
        SetUpEvents(events_arg, env,
                    [i |-> 1, n |-> 0, calls |-> created, result |-> Ok])
      with_opts == SetOptions(opts, env, [set_up EXCEPT !.i = 1])
      ret == NativeRet(env, with_opts.n + 1)
      initialized == Append(with_opts.calls, NativeCall("mpv_initialize", ret))
      Failed(result, calls) ==
        [result |-> result, calls |-> calls, parent |-> FALSE,
         events |-> FALSE]
  IN IF version_mismatch(MPV_CLIENT_API_VERSION, api_version)
     THEN Failed(VersionMismatch(MPV_CLIENT_API_VERSION, api_version), probed)
     ELSE IF ctx_null THEN Failed(Null, created)
     ELSE IF set_up.result # Ok THEN Failed(set_up.result, set_up.calls)
     ELSE IF with_opts.result # Ok THEN Failed(with_opts.result, with_opts.calls)
     ELSE IF ret # 0
     THEN Failed(mpv_err(ret),
                 Append(initialized, NativeCall("mpv_terminate_destroy", 0)))
     ELSE [result |-> Ok, calls |-> initialized, parent |-> TRUE,
           events |-> events_arg]

\* Parent::new_client (lines 427-478): the result, the native calls issued,
\* and the Client returned.  ctx_null: mpv_create_client returns null; the
\* handle it returns is not tested.
new_client(name, events_arg, ctx_null, env) ==
  LET created == <<NativeCall("mpv_create_client", IF ctx_null THEN 0 ELSE 1)>>
      set_up ==
        SetUpEvents(events_arg, env,
                    [i |-> 1, n |-> 0, calls |-> created, result |-> Ok])
      Failed(result, calls) ==
        [result |-> result, calls |-> calls, client |-> FALSE,
         events |-> FALSE, null |-> FALSE]
  IN IF HasNul(name) THEN Failed(Nul, <<>>)
     ELSE IF set_up.result # Ok THEN Failed(set_up.result, set_up.calls)
     ELSE [result |-> Ok, calls |-> set_up.calls, client |-> TRUE,
           events |-> events_arg, null |-> ctx_null]

\* Mutant of does_not_outlive: a handle may be dropped while it is borrowed.
may_outlive(borrows) == TRUE

\* _does_not_outlive (lines 314, 476 and 616): a Client borrows its Parent
\* and an EventIter borrows the instance it was made from, so an instance
\* can be dropped only when nothing borrows it.
does_not_outlive(borrows) == borrows = 0

\* --------------------------------------------------------- command channel
\* A text is kept as the sequence of the pieces it was put together from;
\* an Option<&str> is the empty sequence (None) or a sequence of one text.
None == <<>>
Some(x) == <<x>>
Option(S) == {None} \cup {Some(x) : x \in S}

\* The text as one string, as handed to the engine.
RECURSIVE Concat(_)
Concat(pieces) ==
  IF pieces = <<>> THEN "" ELSE Head(pieces) \o Concat(Tail(pieces))

\* CString::new (line 638) refuses a text with a zero byte in any piece.
ContainsNul(pieces) == \E i \in 1 .. Len(pieces) : HasNul(pieces[i])

\* format!("\"{}\"", path) at lines 908, 987 ... 1025.
Quoted(path) == <<"\"", path, "\"">>

\* Lines 634-637: every argument is pushed after one space.
RECURSIVE PushArgs(_, _)
PushArgs(cmd, args) ==
  IF args = <<>> THEN cmd
  ELSE PushArgs(cmd \o <<" ">> \o Head(args), Tail(args))

\* MpvInstance::command (lines 629-641): the result and the native calls
\* issued; ret is what mpv_command_string returns.  name is one piece, args
\* a sequence of texts.
command(name, args, ret) ==
  LET cmd == PushArgs(<<name>>, args)
  IN IF ContainsNul(cmd)
     THEN [result |-> Nul, calls |-> <<>>]
     ELSE [result |-> mpv_err(ret),
           calls |-> <<CommandString(Concat(cmd), ret)>>]

\* FileState and FileState::val (lines 274-293).
FileState == {"Replace", "Append", "AppendPlay"}
val(state) ==
  CASE state = "Replace" -> "replace"
    [] state = "Append" -> "append"
    [] state = "AppendPlay" -> "append-play"

\* Longest list of files handed to playlist_load_files.
MaxFiles == 2

\* Paths, per-file options, subtitle titles and languages.
Paths == {"a.mkv", NulText}
FileArgs == {"start=1"}
Titles == {"Title", NulText}
Langs == {"eng", NulText}

\* One element of the slice handed to playlist_load_files (line 904).
Files == [path : Paths, state : FileState, args : Option(FileArgs)]

\* Lines 908-910: the command of one element; None as options is "".
LoadFile(elem, ret) ==
  LET args == IF elem.args = None THEN "" ELSE elem.args[1]
  IN command("loadfile", <<Quoted(elem.path), <<val(elem.state)>>, <<args>>>>,
             ret)

\* Mutant of playlist_load_files: the files after a failed one are loaded
\* as well, and the first failure is reported at the end.
RECURSIVE playlist_load_files_all(_, _, _)
playlist_load_files_all(files, env, acc) ==
  IF acc.i > Len(files) THEN acc
  ELSE
    LET out == LoadFile(files[acc.i], NativeRet(env, acc.n + 1))
    IN playlist_load_files_all(
         files, env,
         [i |-> acc.i + 1,
          n |-> acc.n + Len(out.calls),
          calls |-> acc.calls \o out.calls,
          result |->
            IF out.result # Ok /\ acc.result = Ok
            THEN Loadfiles(acc.i - 1, out.result)
            ELSE acc.result])

\* playlist_load_files (lines 904-919), from element acc.i on (elements are
\* counted from 1 here, the index reported counts from 0 as enumerate
\* does): the first failed command ends the loop.
RECURSIVE playlist_load_files(_, _, _)
playlist_load_files(files, env, acc) ==
  IF acc.i > Len(files) THEN acc
  ELSE
    LET out == LoadFile(files[acc.i], NativeRet(env, acc.n + 1))
        called ==
          [acc EXCEPT !.n = @ + Len(out.calls), !.calls = @ \o out.calls]
    IN IF out.result # Ok
       THEN [called EXCEPT !.result = Loadfiles(acc.i - 1, out.result)]
       ELSE playlist_load_files(files, env, [called EXCEPT !.i = @ + 1])

\* Mutant of subtitle_add: a language without a title is passed on.
subtitle_add_unchecked(mode, path, title, lang, ret) ==
  command("sub-add", <<Quoted(path), <<mode>>>>
                       \o [i \in 1 .. Len(title) |-> <<title[i]>>]
                       \o [i \in 1 .. Len(lang) |-> <<lang[i]>>],
          ret)

\* The match of subtitle_add_select (lines 984-1003) and of
\* subtitle_add_auto (lines 1014-1033), which differ in the flag only.
subtitle_add(mode, path, title, lang, ret) ==
  IF title = None /\ lang = None
  THEN command("sub-add", <<Quoted(path), <<mode>>>>, ret)
  ELSE IF title # None /\ lang = None
  THEN command("sub-add", <<Quoted(path), <<mode>>, <<title[1]>>>>, ret)
  ELSE IF title = None /\ lang # None
  THEN [result |-> InvalidArgument, calls |-> <<>>]
  ELSE command("sub-add",
               <<Quoted(path), <<mode>>, <<title[1]>>, <<lang[1]>>>>, ret)

\* Lines 981-1005 and 1011-1035.
subtitle_add_select(path, title, lang, ret) ==
  subtitle_add("select", path, title, lang, ret)
subtitle_add_auto(path, title, lang, ret) ==
  subtitle_add("auto", path, title, lang, ret)

\* format!("{}", n) of an integer: its decimal digits, after a minus sign
\* when it is negative.
DigitText == <<"0", "1", "2", "3", "4", "5", "6", "7", "8", "9">>
RECURSIVE Decimal(_)
Decimal(n) ==
  IF n < 10 THEN DigitText[n + 1]
  ELSE Decimal(n \div 10) \o DigitText[(n % 10) + 1]
Display(n) == IF n < 0 THEN "-" \o Decimal(0 - n) ELSE Decimal(n)

\* The percentages handed to seek_percent (isize) and, when not negative,
\* to seek_percent_absolute (usize).
Percents == {-25, 0, 7, 50, 100, 120}

\* seek_percent (lines 772-776).
seek_percent(percent, ret) ==
  command("seek", <<<<Display(percent)>>, <<"relative-percent">>>>, ret)

\* seek_percent_absolute (lines 780-784).
seek_percent_absolute(percent, ret) ==
  command("seek", <<<<Display(percent)>>, <<"relative-percent">>>>, ret)

\* ---------------------------------------------------- registration contexts
\* Mutex::try_lock: a guard is obtained exactly when the mutex is free.
try_lock(locked) == ~locked

\* Mutant of create_protocol_context: the result of try_lock is not tested.
create_protocol_context_unguarded(locked) ==
  [result |-> Ok, locked |-> TRUE, created |-> 1]

\* create_protocol_context (lines 498-508): the guard obtained is moved into
\* the new ProtocolContext; without a guard the call fails.
create_protocol_context(locked) ==
  IF ~try_lock(locked)
  THEN [result |-> ContextExists, locked |-> locked, created |-> 0]
  ELSE [result |-> Ok, locked |-> TRUE, created |-> 1]

\* Mutant of create_opengl_context: the guard stays locked when
\* OpenGlState::new fails.
create_opengl_context_leak(locked, ret) ==
  IF ~try_lock(locked)
  THEN [result |-> ContextExists, locked |-> locked, created |-> 0]
  ELSE IF ret # 0
  THEN [result |-> mpv_err(ret), locked |-> TRUE, created |-> 0]
  ELSE [result |-> Ok, locked |-> TRUE, created |-> 1]

\* create_opengl_context (lines 484-494): as above, but OpenGlState::new may
\* fail with a native error, and the guard moved into it is then dropped.
create_opengl_context(locked, ret) ==
  IF ~try_lock(locked)
  THEN [result |-> ContextExists, locked |-> locked, created |-> 0]
  ELSE IF ret # 0
  THEN [result |-> mpv_err(ret), locked |-> FALSE, created |-> 0]
  ELSE [result |-> Ok, locked |-> TRUE, created |-> 1]

\* ------------------------------------------------------------------- state
\* The batches handed to observe_events.
RECURSIVE SeqsUpTo(_, _)
SeqsUpTo(S, n) ==
  IF n = 0 THEN {<<>>}
  ELSE LET shorter == SeqsUpTo(S, n - 1)
       IN shorter \cup {Append(q, x) : q \in shorter, x \in S}

Batches == SeqsUpTo(Event, MaxBatch)

Slots == 1 .. MaxIters
NoIter == [live |-> FALSE, local_to_observe |-> <<>>]
FreeSlots == {s \in Slots : ~iters[s].live}
LiveSlots == {s \in Slots : iters[s].live}
FirstFree == CHOOSE s \in FreeSlots : \A t \in FreeSlots : s <= t

Parents == 1 .. MaxParents

EmptyMap == [n \in {} |-> 0]

ClientIds == 1 .. MaxClients
NoClient == [state |-> "none", events |-> FALSE, iters |-> 0]

\* No Parent has been constructed: once is the state of SET_LC_NUMERIC,
\* parent the state of the Parent, events its events field, iters the
\* number of its live EventIters, and lent records that one of its Clients
\* has had an EventIter.
NoHandles ==
  [once |-> FALSE, parent |-> "none", events |-> FALSE, iters |-> 0,
   lent |-> FALSE, clients |-> [c \in ClientIds |-> NoClient]]

OptLists == SeqsUpTo(Names, MaxOpts)

\* Every Parent::with_options(events, &[]) has returned Ok.
Init ==
  /\ events \in BOOLEAN
  /\ ev_to_observe = <<>>
  /\ ev_to_observe_properties = EmptyMap
  /\ iters = [s \in Slots |-> NoIter]
  /\ issued = {}
  /\ protocols_guard = [p \in Parents |-> FALSE]
  /\ opengl_guard = [p \in Parents |-> FALSE]
  /\ protocol_ctxs = [p \in Parents |-> 0]
  /\ opengl_ctxs = [p \in Parents |-> 0]
  /\ ctx_last = [op |-> "with_options", parent |-> 1, result |-> Ok]
  /\ flag = FALSE
  /\ it_state = [s \in Slots |-> "Closed"]
  /\ unseen = FALSE
  /\ ev_observed = <<>>
  /\ emitted = 0
  /\ got = [s \in Slots |-> <<>>]
  /\ yielded = <<>>
  /\ thread = [t \in Threads |-> NotCalled]
  /\ observe_lock = Free
  /\ properties_lock = Free
  /\ handles = NoHandles
  /\ api_last = [op |-> "none", args |-> <<>>, result |-> Ok, calls |-> <<>>]

\* ----------------------------------------------------------------- actions
\* observe_events(batch) called in the current state, the engine answering
\* as env says.
Call(batch, env) ==
  observe_events(events, ev_to_observe, ev_to_observe_properties, batch, env)

\* drop of the EventIter in slot s in the current state.
Teardown(s) ==
  drop_event_iter(ev_to_observe, ev_to_observe_properties,
                  iters[s].local_to_observe)

\* A thread calls observe_events(batch).  `issued` is a history variable:
\* with tracking it collects the observation ids handed out.
Observe(tracking) ==
  \E batch \in Batches, env \in NativeEnv :
    LET out == Call(batch, env)
    IN /\ out.result = Ok => FreeSlots # {}
       /\ ev_to_observe' = out.observe
       /\ ev_to_observe_properties' = out.properties
       /\ iters' =
            IF out.result = Ok
            THEN [iters EXCEPT ![FirstFree] =
                    [live |-> TRUE, local_to_observe |-> out.local_to_observe]]
            ELSE iters
       /\ issued' = IF tracking THEN issued \cup out.ids ELSE issued
       /\ UNCHANGED <<events, contexts, wakeup, delivery, threads, api>>

ObserveEvents == Observe(FALSE)

ObserveEventsTracked == Observe(TRUE)

\* The EventIter in slot s is dropped.
DropEventIter ==
  \E s \in LiveSlots :
    LET out == Teardown(s)
    IN /\ ev_to_observe' = out.observe
       /\ ev_to_observe_properties' = out.properties
       /\ iters' = [iters EXCEPT ![s] = NoIter]
       /\ UNCHANGED <<events, issued, contexts, wakeup, delivery, threads, api>>

\* Mutant of Guards: both categories of a Parent share one mutex.
OneGuard(p) ==
  [protocols_guard |-> protocols_guard[p] \/ opengl_guard[p],
   opengl_guard |-> protocols_guard[p] \/ opengl_guard[p]]

\* The two guards of Parent p (lines 302-303): create_protocol_context
\* tries protocols_guard (line 501), create_opengl_context tries
\* opengl_guard (line 487).
Guards(p) ==
  [protocols_guard |-> protocols_guard[p], opengl_guard |-> opengl_guard[p]]

\* A thread calls create_protocol_context on Parent p.
CreateProtocolContext ==
  \E p \in Parents :
    LET out == create_protocol_context(Guards(p).protocols_guard)
    IN /\ protocols_guard' = [protocols_guard EXCEPT ![p] = out.locked]
       /\ protocol_ctxs' = [protocol_ctxs EXCEPT ![p] = @ + out.created]
       /\ ctx_last' = [op |-> "create_protocol_context", parent |-> p,
                       result |-> out.result]
       /\ UNCHANGED <<observation, opengl_guard, opengl_ctxs, wakeup, delivery, threads,
                   api>>

\* A live ProtocolContext of Parent p is dropped, and with it its guard.
DropProtocolContext ==
  \E p \in Parents :
    /\ protocol_ctxs[p] > 0
    /\ protocol_ctxs' = [protocol_ctxs EXCEPT ![p] = @ - 1]
    /\ protocols_guard' = [protocols_guard EXCEPT ![p] = FALSE]
    /\ ctx_last' = [op |-> "drop_protocol_context", parent |-> p,
                    result |-> Ok]
    /\ UNCHANGED <<observation, opengl_guard, opengl_ctxs, wakeup, delivery, threads,
                   api>>

\* A thread calls create_opengl_context on Parent p; OpenGlState::new
\* returns ret.
CreateOpenglContext ==
  \E p \in Parents, ret \in {0} \cup NativeErrors :
    LET out == create_opengl_context(Guards(p).opengl_guard, ret)
    IN /\ opengl_guard' = [opengl_guard EXCEPT ![p] = out.locked]
       /\ opengl_ctxs' = [opengl_ctxs EXCEPT ![p] = @ + out.created]
       /\ ctx_last' = [op |-> "create_opengl_context", parent |-> p,
                       result |-> out.result]
       /\ UNCHANGED <<observation, protocols_guard, protocol_ctxs, wakeup, delivery, threads,
                   api>>

\* A live OpenGlState of Parent p is dropped, and with it its guard.
DropOpenglContext ==
  \E p \in Parents :
    /\ opengl_ctxs[p] > 0
    /\ opengl_ctxs' = [opengl_ctxs EXCEPT ![p] = @ - 1]
    /\ opengl_guard' = [opengl_guard EXCEPT ![p] = FALSE]
    /\ ctx_last' = [op |-> "drop_opengl_context", parent |-> p, result |-> Ok]
    /\ UNCHANGED <<observation, protocols_guard, protocol_ctxs, wakeup, delivery, threads,
                   api>>

\* A thread subscribes one event and gets a fresh EventIter for it.
OpenIter ==
  \E e \in Event :
    LET out == Call(<<e>>, NoFailure)
    IN /\ FreeSlots # {}
       /\ out.result = Ok
       /\ ev_to_observe' = out.observe
       /\ ev_to_observe_properties' = out.properties
       /\ iters' =
            [iters EXCEPT ![FirstFree] =
               [live |-> TRUE, local_to_observe |-> out.local_to_observe]]
       /\ it_state' = [it_state EXCEPT ![FirstFree] = "Fresh"]
       /\ got' = [got EXCEPT ![FirstFree] = <<>>]
       /\ UNCHANGED <<events, issued, contexts, flag, unseen, ev_observed,
                      emitted, yielded, threads, api>>

\* An EventIter that is not inside next() is dropped.
CloseIter ==
  \E s \in LiveSlots :
    LET out == Teardown(s)
    IN /\ it_state[s] \in {"Fresh", "Draining"}
       /\ ev_to_observe' = out.observe
       /\ ev_to_observe_properties' = out.properties
       /\ iters' = [iters EXCEPT ![s] = NoIter]
       /\ it_state' = [it_state EXCEPT ![s] = "Closed"]
       /\ got' = [got EXCEPT ![s] = <<>>]
       /\ UNCHANGED <<events, issued, contexts, flag, unseen, ev_observed,
                      emitted, yielded, threads, api>>

\* The engine invokes the wakeup callback from one of its threads; the
\* callback is installed only on an instance with events (line 367).
WakeupCallback ==
  LET out == event_callback(flag, it_state)
  IN /\ events
     /\ flag' = out.flag
     /\ it_state' = out.it_state
     /\ unseen' = TRUE
     /\ UNCHANGED <<observation, contexts, delivery, threads, api>>

\* A consumer calls next() on the EventIter in slot s and reaches its wait.
NextWait ==
  \E s \in LiveSlots :
    /\ it_state[s] \in {"Fresh", "Draining"}
    /\ it_state' = [it_state EXCEPT ![s] = wait(flag, it_state[s])]
    /\ UNCHANGED <<observation, contexts, flag, unseen, delivery, threads, api>>

\* What a drain adds to the record of an iterator: the emission numbers of
\* the entries yielded, or one mark (0) for a run of sentinels.
Yield(sofar, items) ==
  IF items = <<>>
  THEN IF sofar # <<>> /\ sofar[Len(sofar)] = 0 THEN sofar ELSE Append(sofar, 0)
  ELSE sofar \o [j \in 1 .. Len(items) |-> items[j].seq]

\* The woken EventIter in slot s drains the buffer and clears the flag.
\* `got` and `yielded` are history variables: with tracking they record
\* what was yielded.
Drain(tracking) ==
  \E s \in LiveSlots :
    LET out == drain(iters[s].local_to_observe, ev_to_observe_properties,
                     ev_observed)
    IN /\ it_state[s] = "Woken"
       /\ ev_observed' = out.ev_observed
       /\ it_state' = [it_state EXCEPT ![s] = out.state]
       /\ flag' = FALSE
       /\ unseen' = FALSE
       /\ got' = IF tracking THEN [got EXCEPT ![s] = Yield(@, out.items)] ELSE got
       /\ yielded' =
            IF tracking
            THEN yielded \o [j \in 1 .. Len(out.items) |-> out.items[j].seq]
            ELSE yielded
       /\ UNCHANGED <<observation, contexts, emitted, threads, api>>

DrainBuffer == Drain(FALSE)

DrainBufferTracked == Drain(TRUE)

\* The engine produces an event, which is materialised at the end of
\* ev_observed: a log message, or a change of a property that is observed,
\* carrying the observation id the property was observed under.
Emit ==
  \E e \in Event :
    /\ events
    /\ emitted < MaxEmit
    /\ e.kind = "PropertyChange" => e.name \in DOMAIN ev_to_observe_properties
    /\ ev_observed' =
         Append(ev_observed,
                InnerEvent(as_id(e),
                           IF e.kind = "PropertyChange"
                           THEN ev_to_observe_properties[e.name] ELSE -1,
                           emitted + 1))
    /\ emitted' = emitted + 1
    /\ UNCHANGED <<observation, contexts, wakeup, got, yielded, threads, api>>

\* Thread t calls observe_events(batch): lines 543-545.
Enter ==
  \E t \in Threads, batch \in Batches :
    /\ thread[t].pc = "start"
    /\ thread' =
         [thread EXCEPT ![t] =
            IF events_disabled(events)
            THEN [@ EXCEPT !.pc = "done", !.batch = batch,
                           !.result = EventsDisabled]
            ELSE [@ EXCEPT !.pc = "entered", !.batch = batch]]
    /\ UNCHANGED <<observation, contexts, wakeup, delivery, observe_lock,
                   properties_lock, api>>

\* Line 547: thread t locks ev_to_observe.
LockObserve ==
  \E t \in Threads :
    /\ thread[t].pc = "entered"
    /\ lock(observe_lock)
    /\ observe_lock' = t
    /\ thread' = [thread EXCEPT ![t].pc = "l547"]
    /\ UNCHANGED <<observation, contexts, wakeup, delivery, properties_lock,
                   api>>

\* Line 548: thread t locks ev_to_observe_properties.
LockProperties ==
  \E t \in Threads :
    /\ thread[t].pc = "l547"
    /\ lock(properties_lock)
    /\ properties_lock' = t
    /\ thread' = [thread EXCEPT ![t].pc = "l548"]
    /\ UNCHANGED <<observation, contexts, wakeup, delivery, observe_lock, api>>

\* Lines 550-604: thread t runs both loops on the registry as it is now.
\* A return statement ends the call and drops both guards.
Loops ==
  \E t \in Threads, env \in NativeEnv :
    LET out == Call(thread[t].batch, env)
        ran == [thread[t] EXCEPT
                  !.calls = out.calls,
                  !.seen = [observe |-> ev_to_observe,
                            properties |-> ev_to_observe_properties]]
    IN /\ thread[t].pc = "l548"
       /\ IF out.result = Ok
          THEN /\ thread' =
                    [thread EXCEPT ![t] =
                       [ran EXCEPT !.pc = "checked",
                                   !.evs = out.local_to_observe,
                                   !.props_ins = out.props_ins]]
               /\ UNCHANGED <<observe_lock, properties_lock>>
          ELSE /\ thread' =
                    [thread EXCEPT ![t] =
                       [ran EXCEPT !.pc = "done", !.result = out.result]]
               /\ observe_lock' = Free
               /\ properties_lock' = Free
       /\ UNCHANGED <<observation, contexts, wakeup, delivery, api>>

\* Line 605: thread t extends the shared list.
MergeObserve ==
  \E t \in Threads :
    /\ thread[t].pc = "checked"
    /\ ev_to_observe' = ExtendObserve(ev_to_observe, thread[t].evs)
    /\ thread' = [thread EXCEPT ![t].pc = "m605"]
    /\ UNCHANGED <<events, ev_to_observe_properties, iters, issued, contexts,
                   wakeup, delivery, observe_lock, properties_lock, api>>

\* Lines 606-618: thread t extends the shared map and returns the EventIter;
\* both guards are dropped.
MergeProperties ==
  \E t \in Threads :
    /\ thread[t].pc = "m605"
    /\ ev_to_observe_properties' =
         ExtendProperties(ev_to_observe_properties, thread[t].props_ins, 1)
    /\ thread' = [thread EXCEPT ![t].pc = "done", ![t].result = Ok]
    /\ observe_lock' = Free
    /\ properties_lock' = Free
    /\ UNCHANGED <<events, ev_to_observe, iters, issued, contexts, wakeup,
                   delivery, api>>

\* The Clients of the Parent that are alive.
LiveClients == {c \in ClientIds : handles.clients[c].state = "alive"}

\* What borrows the Parent: its own EventIters and its Clients.
ParentBorrows == handles.iters + Cardinality(LiveClients)

\* The EventIters of the Clients c, c + 1, ...
RECURSIVE ClientIters(_)
ClientIters(c) ==
  IF c > MaxClients THEN 0 ELSE handles.clients[c].iters + ClientIters(c + 1)

\* All live EventIters of the Parent and its Clients.
AllIters == handles.iters + ClientIters(1)

\* A thread calls Parent::with_options.
WithOptions ==
  \E events_arg \in BOOLEAN, opts \in OptLists, api_version \in LoadedVersions,
     ctx_null \in BOOLEAN :
   \E env \in CtorEnv(CtorReads(events_arg, opts)) :
    LET out == with_options(handles.once, events_arg, opts, api_version,
                            ctx_null, env)
    IN /\ handles.parent # "alive"
       /\ handles' =
            [NoHandles EXCEPT !.once = TRUE,
                              !.parent = IF out.parent THEN "alive" ELSE "none",
                              !.events = out.events]
       /\ api_last' =
            [op |-> "with_options", args |-> <<api_version>>,
             result |-> out.result, calls |-> out.calls]
       /\ UNCHANGED <<observation, contexts, wakeup, delivery, threads>>

\* A thread calls new_client on the live Parent.
NewClient ==
  \E c \in ClientIds, name \in Names, events_arg \in BOOLEAN,
     ctx_null \in BOOLEAN :
   \E env \in CtorEnv(CtorReads(events_arg, <<>>) - 1) :
    LET out == new_client(name, events_arg, ctx_null, env)
    IN /\ handles.parent = "alive"
       /\ handles.clients[c].state = "none"
       /\ \A d \in ClientIds : d < c => handles.clients[d].state = "alive"
       /\ handles' =
            IF out.client
            THEN [handles EXCEPT
                    !.clients[c] =
                      [state |-> "alive", events |-> out.events, iters |-> 0]]
            ELSE handles
       /\ api_last' =
            [op |-> "new_client", args |-> <<name>>, result |-> out.result,
             calls |-> out.calls]
       /\ UNCHANGED <<observation, contexts, wakeup, delivery, threads>>

\* The record of a call that issued no native call and returned Ok.
Quiet(op) == [op |-> op, args |-> <<>>, result |-> Ok, calls |-> <<>>]

\* observe_events(&[]) returns an EventIter of the Parent (lines 608-617):
\* with an empty batch the loops make no native call.
ObserveOnParent ==
  /\ handles.parent = "alive"
  /\ ~events_disabled(handles.events)
  /\ AllIters < MaxIters
  /\ handles' = [handles EXCEPT !.iters = @ + 1]
  /\ api_last' = Quiet("observe_events")
  /\ UNCHANGED <<observation, contexts, wakeup, delivery, threads>>

\* observe_events(&[]) returns an EventIter of a Client (lines 608-617).
ObserveOnClient ==
  \E c \in LiveClients :
    /\ ~events_disabled(handles.clients[c].events)
    /\ AllIters < MaxIters
    /\ handles' = [handles EXCEPT !.clients[c].iters = @ + 1, !.lent = TRUE]
    /\ api_last' = Quiet("observe_events")
    /\ UNCHANGED <<observation, contexts, wakeup, delivery, threads>>

\* An EventIter of the Parent or of a Client is dropped; it observes
\* nothing, so nothing is un-observed.
DropIterOf ==
  \/ /\ handles.iters > 0
     /\ handles' = [handles EXCEPT !.iters = @ - 1]
     /\ api_last' = Quiet("drop_event_iter")
     /\ UNCHANGED <<observation, contexts, wakeup, delivery, threads>>
  \/ \E c \in ClientIds :
       /\ handles.clients[c].iters > 0
       /\ handles' = [handles EXCEPT !.clients[c].iters = @ - 1]
       /\ api_last' = Quiet("drop_event_iter")
       /\ UNCHANGED <<observation, contexts, wakeup, delivery, threads>>

\* Drop for Client (lines 331-338).
DropClient ==
  \E c \in LiveClients :
    /\ does_not_outlive(handles.clients[c].iters)
    /\ handles' = [handles EXCEPT !.clients[c] = NoClient]
    /\ api_last' =
         [op |-> "drop_client", args |-> <<c>>, result |-> Ok,
          calls |-> <<NativeCall("mpv_detach_destroy", 0)>>]
    /\ UNCHANGED <<observation, contexts, wakeup, delivery, threads>>

\* Drop for Parent (lines 322-329).
DropParent ==
  /\ handles.parent = "alive"
  /\ does_not_outlive(ParentBorrows)
  /\ handles' = [handles EXCEPT !.parent = "terminated"]
  /\ api_last' =
       [op |-> "drop_parent", args |-> <<>>, result |-> Ok,
        calls |-> <<NativeCall("mpv_terminate_destroy", 0)>>]
  /\ UNCHANGED <<observation, contexts, wakeup, delivery, threads>>

\* No command has been sent yet.  The commands keep no state in the
\* wrapper: what a call returns and issues depends on its arguments and on
\* the answers of the engine only, so every call is a first call.
NoCommandYet == api_last.op = "none"

\* A thread calls playlist_load_files on a live instance.
PlaylistLoadFiles ==
  \E files \in SeqsUpTo(Files, MaxFiles) :
    \E env \in CtorEnv(Len(files)) :
      LET out ==
            playlist_load_files(files, env,
                                [i |-> 1, n |-> 0, calls |-> <<>>,
                                 result |-> Ok])
      IN /\ NoCommandYet
         /\ api_last' =
              [op |-> "playlist_load_files", args |-> files,
               result |-> out.result, calls |-> out.calls]
         /\ UNCHANGED <<observation, contexts, wakeup, delivery, threads,
                        handles>>

\* A thread calls subtitle_add_select on a live instance.
SubtitleAddSelect ==
  \E path \in Paths, title \in Option(Titles), lang \in Option(Langs),
     ret \in {0} \cup NativeErrors :
    LET out == subtitle_add_select(path, title, lang, ret)
    IN /\ NoCommandYet
       /\ api_last' =
            [op |-> "subtitle_add_select", args |-> <<path, title, lang>>,
             result |-> out.result, calls |-> out.calls]
       /\ UNCHANGED <<observation, contexts, wakeup, delivery, threads,
                      handles>>

\* A thread calls subtitle_add_auto on a live instance.
SubtitleAddAuto ==
  \E path \in Paths, title \in Option(Titles), lang \in Option(Langs),
     ret \in {0} \cup NativeErrors :
    LET out == subtitle_add_auto(path, title, lang, ret)
    IN /\ NoCommandYet
       /\ api_last' =
            [op |-> "subtitle_add_auto", args |-> <<path, title, lang>>,
             result |-> out.result, calls |-> out.calls]
       /\ UNCHANGED <<observation, contexts, wakeup, delivery, threads,
                      handles>>

\* A thread calls seek_percent on a live instance.
SeekPercent ==
  \E percent \in Percents, ret \in {0} \cup NativeErrors :
    LET out == seek_percent(percent, ret)
    IN /\ NoCommandYet
       /\ api_last' =
            [op |-> "seek_percent", args |-> <<percent>>,
             result |-> out.result, calls |-> out.calls]
       /\ UNCHANGED <<observation, contexts, wakeup, delivery, threads,
                      handles>>

\* A thread calls seek_percent_absolute on a live instance.
SeekPercentAbsolute ==
  \E percent \in {p \in Percents : p >= 0}, ret \in {0} \cup NativeErrors :
    LET out == seek_percent_absolute(percent, ret)
    IN /\ NoCommandYet
       /\ api_last' =
            [op |-> "seek_percent_absolute", args |-> <<percent>>,
             result |-> out.result, calls |-> out.calls]
       /\ UNCHANGED <<observation, contexts, wakeup, delivery, threads,
                      handles>>

\* Subscriptions and teardowns on one instance.
Next ==
  \/ ObserveEvents
  \/ DropEventIter

Spec == Init /\ [][Next]_vars

\* The same, recording the observation ids handed out.
NextIds ==
  \/ ObserveEventsTracked
  \/ DropEventIter

SpecIds == Init /\ [][NextIds]_vars

\* Registration contexts of the Parents.
NextCtx ==
  \/ CreateProtocolContext
  \/ DropProtocolContext
  \/ CreateOpenglContext
  \/ DropOpenglContext

SpecCtx == Init /\ [][NextCtx]_vars

\* Two threads, each calling observe_events once on the same instance and
\* keeping the EventIter it gets.
NextThreads ==
  \/ Enter
  \/ LockObserve
  \/ LockProperties
  \/ Loops
  \/ MergeObserve
  \/ MergeProperties

SpecThreads == Init /\ [][NextThreads]_vars

\* Construction and destruction of a Parent, its Clients and their
\* EventIters.
NextLife ==
  \/ WithOptions
  \/ NewClient
  \/ ObserveOnParent
  \/ ObserveOnClient
  \/ DropIterOf
  \/ DropClient
  \/ DropParent

SpecLife == Init /\ [][NextLife]_vars

\* Playlist, subtitle and seek commands on one instance.
NextCmd ==
  \/ PlaylistLoadFiles
  \/ SubtitleAddSelect
  \/ SubtitleAddAuto
  \/ SeekPercent
  \/ SeekPercentAbsolute

SpecCmd == Init /\ [][NextCmd]_vars

\* The wakeup bridge and the iterators waiting on it.
NextWake ==
  \/ OpenIter
  \/ CloseIter
  \/ WakeupCallback
  \/ NextWait
  \/ DrainBuffer

SpecWake == Init /\ [][NextWake]_vars

\* Events produced by the engine and drained by sibling iterators.
NextIter ==
  \/ OpenIter
  \/ CloseIter
  \/ Emit
  \/ WakeupCallback
  \/ NextWait
  \/ DrainBufferTracked

SpecIter == Init /\ [][NextIter]_vars

\* ------------------------------------------------------------------ claims
\* e is in the shared list of observed events (by kind, and by property name
\* for property changes).
Observed(e) ==
  \E j \in 1 .. Len(ev_to_observe) : Matches(e, ev_to_observe[j])

HasObserved(batch) == \E j \in 1 .. Len(batch) : Observed(batch[j])

FirstObserved(batch) ==
  CHOOSE j \in 1 .. Len(batch) :
    Observed(batch[j]) /\ \A i \in 1 .. j - 1 : ~Observed(batch[i])

SameRegistry(out) ==
  /\ out.observe = ev_to_observe
  /\ out.properties = ev_to_observe_properties

\* C1 as stated: whenever an element k of the batch is already observed, the
\* call returns AlreadyObserved carrying k and leaves the registry as it was
\* (checked with an engine that accepts every call).
C1_AlreadyObservedCarriesK ==
  \A batch \in Batches :
    \A j \in 1 .. Len(batch) :
      Observed(batch[j]) =>
        LET out == Call(batch, NoFailure)
        IN out.result = AlreadyObserved(batch[j]) /\ SameRegistry(out)

\* C1 amended: a call whose batch contains an already observed element
\* returns an error and leaves observed_kinds and observed_properties as
\* they were; the error is AlreadyObserved carrying the first already
\* observed element of the batch, unless a native call made for an element
\* before it failed, and then it is that native error.
C1_RejectedCarriesFirst ==
  \A batch \in Batches, env \in NativeEnv :
    HasObserved(batch) =>
      LET out == Call(batch, env)
          first == batch[FirstObserved(batch)]
      IN /\ out.result.kind \in {"AlreadyObserved", "Native"}
         /\ out.result.kind = "AlreadyObserved" =>
              out.result = AlreadyObserved(first)
         /\ out.result.kind = "Native" =>
              env.at >= 1 /\ out.result = Native(env.code)
         /\ env = NoFailure => out.result.kind = "AlreadyObserved"
         /\ SameRegistry(out)

\* A live iterator holds two events, and a batch of both is rejected with
\* the first of them, not the second.
C1_Witness ==
  /\ LiveSlots # {}
  /\ \E batch \in Batches :
       /\ Len(batch) = 2
       /\ batch[1] # batch[2]
       /\ Observed(batch[1])
       /\ Observed(batch[2])
       /\ Call(batch, NoFailure).result = AlreadyObserved(batch[1])
       /\ SameRegistry(Call(batch, NoFailure))

IsProperty(e) == e.kind = "PropertyChange"

Contains(batch, e) == \E j \in 1 .. Len(batch) : batch[j] = e

\* C2: while the iterator that subscribed PropertyChange(p) is live, every
\* call whose batch contains PropertyChange(p) fails with AlreadyObserved,
\* and once that iterator is torn down the same subscription succeeds.
C2_PropertyExclusiveWhileLive ==
  \A s \in LiveSlots :
    \A i \in 1 .. Len(iters[s].local_to_observe) :
      LET e == iters[s].local_to_observe[i]
          torn == Teardown(s)
      IN IsProperty(e) =>
           /\ \A batch \in Batches, env \in NativeEnv :
                Contains(batch, e) =>
                  Call(batch, env).result.kind = "AlreadyObserved"
           /\ observe_events(events, torn.observe, torn.properties, <<e>>,
                             NoFailure).result = Ok

\* C3: a call that returns AlreadyObserved has issued no native call.
C3_NoNativeCallBeforeRejection ==
  \A batch \in Batches, env \in NativeEnv :
    LET out == Call(batch, env)
    IN out.result.kind = "AlreadyObserved" => out.calls = <<>>

\* A later call of the trace takes back what call i registered.
Undone(calls, i) ==
  \E j \in i + 1 .. Len(calls) :
    \/ /\ calls[i].fn = "mpv_request_event"
       /\ calls[j].fn = "mpv_request_event"
       /\ calls[j].ev = calls[i].ev
       /\ calls[j].enable = 0
    \/ /\ calls[i].fn = "mpv_observe_property"
       /\ calls[j].fn = "mpv_unobserve_property"
       /\ calls[j].id = calls[i].id

Registers(c) ==
  /\ c.ret = 0
  /\ \/ c.fn = "mpv_request_event" /\ c.enable = 1
     \/ c.fn = "mpv_observe_property"

\* C4: when a native call of observe_events fails, every event enablement
\* and every property observation the call made before is undone before it
\* returns.
C4_NativeFailureRollsBack ==
  \A batch \in Batches, env \in NativeEnv :
    LET out == Call(batch, env)
    IN out.result.kind = "Native" =>
         \A i \in 1 .. Len(out.calls) :
           Registers(out.calls[i]) => Undone(out.calls, i)

\* C5: a call that fails on a native error returns the error of the native
\* call that failed, and observed_kinds and observed_properties are as
\* before the call.
C5_NativeErrorVerbatimRegistryKept ==
  \A batch \in Batches, env \in NativeEnv :
    LET out == Call(batch, env)
    IN out.result.kind = "Native" =>
         /\ env.at >= 1
         /\ out.result = Native(env.code)
         /\ \E i \in 1 .. Len(out.calls) :
              /\ out.calls[i].ret = env.code
              /\ \A j \in 1 .. i - 1 : out.calls[j].ret = 0
         /\ SameRegistry(out)

\* With subscriptions in the registry, a batch of two properties fails at
\* the second mpv_observe_property, after the first was observed and
\* un-observed again.
C5_Witness ==
  /\ ev_to_observe # <<>>
  /\ \E batch \in Batches, env \in NativeEnv :
       LET out == Call(batch, env)
       IN /\ Len(batch) = 2
          /\ out.result = Native(env.code)
          /\ \E i \in 1 .. Len(out.calls) :
               out.calls[i].fn = "mpv_unobserve_property"

\* C6: every event kind is at most once in observed_kinds, and every
\* property name at most once (the keys of observed_properties are unique
\* by construction of the map).
C6_RegistryUnique ==
  \A i, j \in 1 .. Len(ev_to_observe) :
    i # j => ~Matches(ev_to_observe[i], ev_to_observe[j])

\* C7: the observation ids a call hands out are greater than every id handed
\* out by an earlier call, so none is handed out twice.
C7_IdsIncreaseNeverReused ==
  \A batch \in Batches, env \in NativeEnv :
    LET out == Call(batch, env)
    IN out.result = Ok => \A id \in out.ids : \A old \in issued : id > old

\* C8: a Parent never has two live protocol contexts, and while one is live
\* create_protocol_context returns ContextExists and creates nothing.
C8_OneProtocolContext ==
  \A p \in Parents :
    /\ protocol_ctxs[p] <= 1
    /\ protocol_ctxs[p] = 1 =>
         LET out == create_protocol_context(protocols_guard[p])
         IN out.result = ContextExists /\ out.created = 0

\* A create call on a Parent with a live context has just been rejected.
C8_Witness ==
  /\ ctx_last.op = "create_protocol_context"
  /\ ctx_last.result = ContextExists
  /\ protocol_ctxs[ctx_last.parent] = 1

\* C9: a guard is held only while a context of its Parent and category is
\* alive (no dead context and no failed create keeps it), so without a live
\* protocol context create_protocol_context succeeds.
C9_GuardReleased ==
  \A p \in Parents :
    /\ protocols_guard[p] => protocol_ctxs[p] > 0
    /\ opengl_guard[p] => opengl_ctxs[p] > 0
    /\ protocol_ctxs[p] = 0 =>
         create_protocol_context(protocols_guard[p]).result = Ok

\* The only protocol context of a Parent has just been dropped, and the
\* next create call on that Parent succeeds.
C9_Witness ==
  /\ ctx_last.op = "drop_protocol_context"
  /\ protocol_ctxs[ctx_last.parent] = 0
  /\ create_protocol_context(protocols_guard[ctx_last.parent]).result = Ok

Disjoint(a, b) ==
  \A i \in 1 .. Len(iters[a].local_to_observe) :
    \A j \in 1 .. Len(iters[b].local_to_observe) :
      ~Matches(iters[a].local_to_observe[i], iters[b].local_to_observe[j])

\* C10: tearing down iterator a leaves every subscription of a live iterator
\* b with disjoint subscriptions in the registry, and b can still drain its
\* events: the teardown un-observes no observation id under which a property
\* of b is observed.
C10_TeardownKeepsSiblings ==
  \A a \in LiveSlots, b \in LiveSlots :
    (a # b /\ Disjoint(a, b)) =>
      LET torn == Teardown(a)
          mine == iters[b].local_to_observe
      IN \A j \in 1 .. Len(mine) :
           /\ \E k \in 1 .. Len(torn.observe) : Matches(mine[j], torn.observe[k])
           /\ IsProperty(mine[j]) =>
                /\ mine[j].name \in DOMAIN torn.properties
                /\ \A c \in 1 .. Len(torn.calls) :
                     torn.calls[c].id # torn.properties[mine[j].name]

Mine(s) ==
  SelectSeq(ev_observed,
            LAMBDA en : Owns(iters[s].local_to_observe,
                             ev_to_observe_properties, en))

\* Next(s): what the drain of the iterator in slot s does in this state.
DrainOf(s) ==
  drain(iters[s].local_to_observe, ev_to_observe_properties, ev_observed)

\* C12: no entry of ev_observed is yielded twice, whatever the interleaving
\* of the drains of sibling iterators, and every iterator is yielded its
\* events in the order the engine produced them.
C12_DeliveredOnceInOrder ==
  /\ \A i, j \in 1 .. Len(yielded) : i # j => yielded[i] # yielded[j]
  /\ \A s \in Slots :
       \A i, j \in 1 .. Len(got[s]) :
         (i < j /\ got[s][i] # 0 /\ got[s][j] # 0) => got[s][i] < got[s][j]
  /\ \A s \in LiveSlots :
       LET out == DrainOf(s)
       IN \A i \in 1 .. Len(out.items) :
            \A j \in 1 .. Len(out.ev_observed) :
              out.items[i].seq # out.ev_observed[j].seq

\* Two sibling iterators have each been yielded an event, and the one
\* yielded first was produced after the other.
C12_Witness ==
  \E a \in LiveSlots, b \in LiveSlots :
    /\ a # b
    /\ Len(yielded) = 2
    /\ yielded[1] > yielded[2]
    /\ yielded[1] \in {got[a][i] : i \in 1 .. Len(got[a])}
    /\ yielded[2] \in {got[b][i] : i \in 1 .. Len(got[b])}

\* The iterator in slot s has yielded the sentinel.
HadSentinel(s) == \E i \in 1 .. Len(got[s]) : got[s][i] = 0

\* C13: an iterator woken while the buffer holds nothing of its own yields
\* NoAssociatedEvent, takes nothing from the buffer and is not closed; an
\* iterator that has yielded the sentinel before yields, on a wake with
\* entries of its own in the buffer, exactly those entries.
C13_SentinelKeepsIterator ==
  \A s \in LiveSlots :
    LET out == DrainOf(s)
    IN /\ it_state[s] # "Closed"
       /\ Mine(s) = <<>> =>
            /\ out.result = NoAssociatedEvent
            /\ out.items = <<>>
            /\ out.ev_observed = ev_observed
            /\ out.state = "Draining"
       /\ (HadSentinel(s) /\ Mine(s) # <<>>) =>
            /\ out.result = Ok
            /\ out.items = Mine(s)
            /\ out.state = "Draining"

\* An iterator was yielded the sentinel and, on a later wake, an event.
C13_Witness ==
  \E s \in LiveSlots :
    \E i, j \in 1 .. Len(got[s]) : i < j /\ got[s][i] = 0 /\ got[s][j] > 0

\* Two batches have an element in common: the same event kind, or
\* PropertyChange of the same property name.
Overlap(a, b) ==
  \E i \in 1 .. Len(a) : \E j \in 1 .. Len(b) : Matches(a[i], b[j])

\* Thread t has run the duplicate checks of its call.
Checked(t) ==
  \/ thread[t].pc \in {"checked", "m605"}
  \/ thread[t].pc = "done" /\ thread[t].result # EventsDisabled

\* The registry as it is after the merge of the call of thread u alone.
MergedBy(u) ==
  [observe |-> ExtendObserve(<<>>, thread[u].evs),
   properties |-> ExtendProperties(EmptyMap, thread[u].props_ins, 1)]

\* C14: of two concurrent calls whose batches have an element in common at
\* most one succeeds, and the duplicate checks of either call read the
\* registry either as it was before the merge of the other call or as it
\* is after the whole of it.
C14_SubscriptionAtomic ==
  \A t \in Threads, u \in Threads :
    t # u =>
      /\ ( /\ thread[t].pc = "done" /\ thread[t].result = Ok
           /\ thread[u].pc = "done" /\ thread[u].result = Ok )
           => ~Overlap(thread[t].batch, thread[u].batch)
      /\ Checked(t) =>
           \/ thread[t].seen = [observe |-> <<>>, properties |-> EmptyMap]
           \/ /\ thread[u].pc = "done"
              /\ thread[u].result = Ok
              /\ thread[t].seen = MergedBy(u)

\* Both calls have returned, their batches have an element in common, the
\* first succeeded and the second was rejected for an element the merge of
\* the first had put into the registry.
C14_Witness ==
  \E t \in Threads, u \in Threads :
    /\ t # u
    /\ thread[t].pc = "done" /\ thread[t].result = Ok
    /\ thread[u].pc = "done" /\ thread[u].result.kind = "AlreadyObserved"
    /\ Len(thread[t].batch) = 2
    /\ Overlap(thread[t].batch, thread[u].batch)
    /\ thread[u].seen = MergedBy(t)

\* C15: a thread that holds the lock of ev_to_observe or of
\* ev_to_observe_properties has issued no native call: observe_events calls
\* mpv_request_event, mpv_request_log_messages and mpv_observe_property
\* only while it holds neither lock.
C15_NoNativeCallUnderLock ==
  \A t \in Threads :
    (observe_lock = t \/ properties_lock = t) => thread[t].calls = <<>>

\* C16: the handle of the Parent is terminated only after every Client made
\* from it and every EventIter made from it or from one of its Clients has
\* been dropped, and the handle of a Client is detached only after the
\* EventIters made from that Client have been dropped.
C16_NoUseAfterParentExit ==
  /\ handles.parent = "terminated" =>
       /\ handles.iters = 0
       /\ \A c \in ClientIds :
            handles.clients[c].state # "alive" /\ handles.clients[c].iters = 0
  /\ \A c \in ClientIds :
       handles.clients[c].state # "alive" => handles.clients[c].iters = 0

\* The Parent has been terminated after one of its Clients had an
\* EventIter.
C16_Witness ==
  /\ handles.parent = "terminated"
  /\ handles.lent
  /\ api_last.op = "drop_parent"

\* C17: on an instance constructed without events observe_events returns
\* EventsDisabled for every batch, whatever the engine would answer, issues
\* no native call and leaves the registry as it was.
C17_EventsDisabledRefuses ==
  ~events =>
    /\ \A batch \in Batches, env \in NativeEnv :
         LET out == Call(batch, env)
         IN /\ out.result = EventsDisabled
            /\ out.calls = <<>>
            /\ SameRegistry(out)
            /\ out.local_to_observe = <<>>
    /\ \A t \in Threads :
         /\ thread[t].pc \in {"start", "done"}
         /\ thread[t].pc = "done" =>
              thread[t].result = EventsDisabled /\ thread[t].calls = <<>>
    /\ ev_to_observe = <<>>
    /\ ev_to_observe_properties = EmptyMap
    /\ observe_lock = Free
    /\ properties_lock = Free

\* On an instance without events both threads have called, one of them
\* with a batch of two events, and both were refused.
C17_Witness ==
  /\ ~events
  /\ \A t \in Threads :
       thread[t].pc = "done" /\ thread[t].result = EventsDisabled
  /\ \E t \in Threads : Len(thread[t].batch) = 2

\* The trace holds a call of the native function fn.
Calls(calls, fn) == \E i \in 1 .. Len(calls) : calls[i].fn = fn

\* C18: when the loaded library reports another version than the one
\* compiled against, with_options returns VersionMismatch carrying both,
\* mpv_create is not called and no Parent exists; when the versions are
\* equal VersionMismatch is not returned.
C18_VersionMismatchBeforeCreate ==
  api_last.op = "with_options" =>
    LET loaded == api_last.args[1]
    IN /\ loaded # MPV_CLIENT_API_VERSION =>
            /\ api_last.result = VersionMismatch(MPV_CLIENT_API_VERSION, loaded)
            /\ ~Calls(api_last.calls, "mpv_create")
            /\ handles.parent = "none"
       /\ loaded = MPV_CLIENT_API_VERSION =>
            api_last.result.kind # "VersionMismatch"

\* with_options has been refused because the loaded library reports the
\* next minor version.
C18_Witness ==
  /\ api_last.op = "with_options"
  /\ api_last.args[1] = MPV_CLIENT_API_VERSION + 1
  /\ api_last.result.kind = "VersionMismatch"
  /\ api_last.result.loaded = MPV_CLIENT_API_VERSION + 1
  /\ handles.parent = "none"

\* The text of the loadfile command of one element.
LoadfileText(elem) ==
  "loadfile \"" \o elem.path \o "\" " \o val(elem.state) \o " "
    \o (IF elem.args = None THEN "" ELSE elem.args[1])

\* C19: playlist_load_files issues the loadfile commands in list order, one
\* for each element, and stops at the first that fails: with element i
\* (counted from 0) the first whose command fails the result is
\* Loadfiles(i, err) with the error of that command, the commands of the
\* elements before i have been issued and succeeded, and no command of an
\* element after i is issued; when none fails the result is Ok.
C19_LoadFilesStopsAtFirstFailure ==
  api_last.op = "playlist_load_files" =>
    LET files == api_last.args
        calls == api_last.calls
        result == api_last.result
        InOrder ==
          \A k \in 1 .. Len(calls) :
            /\ calls[k].fn = "mpv_command_string"
            /\ calls[k].name = LoadfileText(files[k])
        Succeeded(n) == \A k \in 1 .. n : calls[k].ret = 0
    IN /\ Len(calls) <= Len(files)
       /\ InOrder
       /\ result.kind \in {"Ok", "Loadfiles"}
       /\ result = Ok => Len(calls) = Len(files) /\ Succeeded(Len(files))
       /\ result.kind = "Loadfiles" =>
            LET i == result.index
            IN /\ i \in 0 .. Len(files) - 1
               /\ Succeeded(i)
               /\ \/ /\ Len(calls) = i + 1
                     /\ calls[i + 1].ret # 0
                     /\ result.error = Native(calls[i + 1].ret)
                  \/ /\ Len(calls) = i
                     /\ HasNul(files[i + 1].path)
                     /\ result.error = Nul

\* The second of two files failed in the engine after the first had been
\* loaded.
C19_Witness ==
  /\ api_last.op = "playlist_load_files"
  /\ Len(api_last.args) = 2
  /\ api_last.result.kind = "Loadfiles"
  /\ api_last.result.index = 1
  /\ api_last.result.error.kind = "Native"
  /\ Len(api_last.calls) = 2
  /\ api_last.calls[1].ret = 0

\* The last call was subtitle_add_select or subtitle_add_auto.
SubtitleAdded ==
  api_last.op \in {"subtitle_add_select", "subtitle_add_auto"}

\* The sub-add commands the last call issued to the engine.
SubAdds ==
  {k \in 1 .. Len(api_last.calls) :
     api_last.calls[k].fn = "mpv_command_string"}

\* C20 as stated: a language without a title gives InvalidArgument and no
\* command; every other combination of title and language issues exactly
\* one sub-add command to the engine.
C20_OneSubAddUnlessInvalid ==
  SubtitleAdded =>
    LET title == api_last.args[2]
        lang == api_last.args[3]
    IN IF title = None /\ lang # None
       THEN api_last.result = InvalidArgument /\ api_last.calls = <<>>
       ELSE Cardinality(SubAdds) = 1 /\ Len(api_last.calls) = 1

\* C20: a language without a title gives InvalidArgument and no command;
\* for every other combination exactly one sub-add command is built from
\* the quoted path, the flag, the title and the language: it is issued to
\* the engine and its result returned, unless one of the texts holds a zero
\* byte, in which case nothing is issued and the error of the conversion is
\* returned.
C20_OneSubAddUnlessInvalidOrNul ==
  SubtitleAdded =>
    LET path == api_last.args[1]
        title == api_last.args[2]
        lang == api_last.args[3]
        mode == IF api_last.op = "subtitle_add_select" THEN "select"
                ELSE "auto"
        text ==
          "sub-add \"" \o path \o "\" " \o mode
            \o (IF title = None THEN "" ELSE " " \o title[1])
            \o (IF lang = None THEN "" ELSE " " \o lang[1])
        nul ==
          \/ HasNul(path)
          \/ title # None /\ HasNul(title[1])
          \/ lang # None /\ HasNul(lang[1])
    IN IF title = None /\ lang # None
       THEN api_last.result = InvalidArgument /\ api_last.calls = <<>>
       ELSE IF nul
       THEN api_last.result = Nul /\ api_last.calls = <<>>
       ELSE /\ Len(api_last.calls) = 1
            /\ api_last.calls[1].fn = "mpv_command_string"
            /\ api_last.calls[1].name = text
            /\ api_last.result = mpv_err(api_last.calls[1].ret)

\* subtitle_add_auto was called with a title and a language and issued its
\* one command.
C20_Witness ==
  /\ api_last.op = "subtitle_add_auto"
  /\ api_last.args[2] # None
  /\ api_last.args[3] # None
  /\ Len(api_last.calls) = 1
  /\ api_last.calls[1].name = "sub-add \"a.mkv\" auto Title eng"

\* C21: the two guards of a Parent are independent and only tried: with a
\* live context of one category and none of the other, a create call of
\* the other category does not return ContextExists (it succeeds, or fails
\* with the error of the engine); and a create call is possible in every
\* state and returns at once, with ContextExists when its own guard is
\* held, whoever holds it.
C21_GuardsIndependentNonBlocking ==
  /\ \A p \in Parents :
       /\ opengl_ctxs[p] > 0 /\ protocol_ctxs[p] = 0 =>
            create_protocol_context(Guards(p).protocols_guard).result = Ok
       /\ protocol_ctxs[p] > 0 /\ opengl_ctxs[p] = 0 =>
            \A ret \in {0} \cup NativeErrors :
              create_opengl_context(Guards(p).opengl_guard, ret).result
                = mpv_err(ret)
       /\ protocols_guard[p] =>
            create_protocol_context(Guards(p).protocols_guard).result
              = ContextExists
       /\ opengl_guard[p] =>
            \A ret \in {0} \cup NativeErrors :
              create_opengl_context(Guards(p).opengl_guard, ret).result
                = ContextExists
  /\ ENABLED CreateProtocolContext
  /\ ENABLED CreateOpenglContext

\* A protocol context has just been created on a Parent that has a live
\* opengl context.
C21_Witness ==
  /\ ctx_last.op = "create_protocol_context"
  /\ ctx_last.result = Ok
  /\ opengl_ctxs[ctx_last.parent] = 1
  /\ protocol_ctxs[ctx_last.parent] = 1

\* The batch holds the same event twice: the same kind, and for
\* PropertyChange the same property name.
DuplicateWithin(batch) ==
  \E i, j \in 1 .. Len(batch) : i < j /\ batch[i] = batch[j]

\* C22: observe_events of a batch that holds the same event twice fails
\* with AlreadyObserved and leaves the registry as it was, also when no
\* native call fails.
C22_DuplicateInBatchRejected ==
  events =>
    \A batch \in Batches :
      DuplicateWithin(batch) =>
        LET out == Call(batch, NoFailure)
        IN out.result.kind = "AlreadyObserved" /\ SameRegistry(out)

\* C23: the observation ids stored in observed_properties are pairwise
\* distinct: no two observed property names share an id.
C23_ObservationIdsDistinct ==
  \A n1, n2 \in DOMAIN ev_to_observe_properties :
    n1 # n2 => ev_to_observe_properties[n1] # ev_to_observe_properties[n2]

\* C24: the command line seek_percent_absolute(p) issues is the
\* absolute-percent seek of p, and it is not the command line that
\* seek_percent(p) issues.
C24_SeekPercentAbsoluteIsAbsolute ==
  api_last.op = "seek_percent_absolute" =>
    LET percent == api_last.args[1]
        relative == seek_percent(percent, 0).calls
    IN /\ Len(api_last.calls) = 1
       /\ api_last.calls[1].fn = "mpv_command_string"
       /\ api_last.calls[1].name
            = "seek " \o Display(percent) \o " absolute-percent"
       /\ api_last.calls[1].name # relative[1].name

\* The engine returned a null handle to the last construction.
NullHandle ==
  \E i \in 1 .. Len(api_last.calls) :
    /\ api_last.calls[i].fn \in {"mpv_create", "mpv_create_client"}
    /\ api_last.calls[i].ret = 0

\* C25: when the engine returns a null handle, with_options and new_client
\* fail with Null: no Parent and no Client wrapping a null handle is
\* returned, and no further native call is made on it.
C25_NullHandleNeverWrapped ==
  api_last.op \in {"with_options", "new_client"} /\ NullHandle =>
    /\ api_last.result = Null
    /\ api_last.calls[Len(api_last.calls)].fn
         \in {"mpv_create", "mpv_create_client"}

====
